---- MODULE Spec2Model ----
(***************************************************************************)
(* A model of pysocialforce/forces.py: the Force base class (its          *)
(* constructor, load_config, set_state) and the get_force of its seven    *)
(* subclasses.                                                             *)
(*                                                                         *)
(* Conventions.                                                            *)
(*  - A Python value that may be None is <<>> (None) or <<x>> (x).         *)
(*  - Configured numbers (factor, time_step, threshold) are in tenths:     *)
(*    10 is 1.0, 4 is 0.4, 5 is 0.5.  Coordinates are whole units, so a    *)
(*    returned force entry is in tenths of a unit.                         *)
(*  - A state matrix is a sequence of rows <<x, y, vx, vy, gx, gy, tau>>;  *)
(*    agents are numbered from 1 (the code numbers them from 0).           *)
(*  - A unit vector is written as its direction with coprime integer      *)
(*    components; <<0, 0>> is what normalize gives for the zero vector.    *)
(*  - A sub-mapping of the configuration is a function on ConfigKeys; a    *)
(*    key it does not hold maps to None, as dict.get reads it.             *)
(***************************************************************************)
EXTENDS Integers, Sequences, FiniteSets, TLC

None == <<>>
Some(x) == <<x>>
Val(o) == o[1]

\* ------------------------------------------------------------ bounds
MaxAgents == 2
MaxCoord == 1
MaxLifeAgents == 1
MaxTick == 1

\* ------------------------------------------------- program constants
FactorDefault == 10
TimeStepDefault == 4
ThresholdDefault == 5
VisionAngleDefault == 100

\* ------------------------------------------------------------- names
Classes ==
  {"GoalAttractiveForce", "PedRepulsiveForce", "SpaceRepulsiveForce",
   "GroupCoherenceForce", "GroupCoherenceForceAlt", "GroupRepulsiveForce",
   "GroupGazeForce"}

\* re.sub(r"(?<!^)(?=[A-Z])", "_", s).lower() on the seven class names
camel_to_snake(camel_case_string) ==
  CASE camel_case_string = "GoalAttractiveForce" -> "goal_attractive_force"
    [] camel_case_string = "PedRepulsiveForce" -> "ped_repulsive_force"
    [] camel_case_string = "SpaceRepulsiveForce" -> "space_repulsive_force"
    [] camel_case_string = "GroupCoherenceForce" -> "group_coherence_force"
    [] camel_case_string = "GroupCoherenceForceAlt" -> "group_coherence_force_alt"
    [] camel_case_string = "GroupRepulsiveForce" -> "group_repulsive_force"
    [] camel_case_string = "GroupGazeForce" -> "group_gaze_force"

\* the classes whose get_force walks self.groups
GroupClasses ==
  {"GroupCoherenceForce", "GroupCoherenceForceAlt", "GroupRepulsiveForce",
   "GroupGazeForce"}

Names == {camel_to_snake(c) : c \in Classes}

\* ----------------------------------------------------- configuration
ConfigKeys ==
  {"factor", "time_step", "threshold", "fov_phi", "fov_factor", "v0",
   "sigma", "u0", "r"}

EmptyDict == [k \in ConfigKeys |-> None]

\* bool(d) of a dict: it holds at least one key
DictTruthy(d) == \E k \in ConfigKeys : d[k] # None

\* bool(x) of an optional number: neither None nor 0
NumTruthy(o) == o # None /\ Val(o) # 0

\* x or default
OrDefault(o, default) == IF NumTruthy(o) THEN Val(o) ELSE default

\* ---------------------------------------------------------- geometry
Abs(a) == IF a < 0 THEN -a ELSE a

RECURSIVE Gcd(_, _)
Gcd(a, b) == IF b = 0 THEN a ELSE Gcd(b, a % b)

Dot(v, w) == v[1] * w[1] + v[2] * w[2]

\* stateutils.normalize, the unit vector of one row
Direction(v) ==
  LET g == Gcd(Abs(v[1]), Abs(v[2]))
  IN IF g = 0 THEN <<0, 0>> ELSE <<v[1] \div g, v[2] \div g>>

\* stateutils.desired_directions: per agent, the unit vector from its
\* position to its goal
desired_directions(state) ==
  [i \in 1..Len(state) |->
     Direction(<<state[i][5] - state[i][1], state[i][6] - state[i][2]>>)]

RECURSIVE SumPos(_, _)
\* the sum of the positions of the members of group (a sequence of agents)
SumPos(state, group) ==
  IF group = <<>> THEN <<0, 0>>
  ELSE LET r == SumPos(state, Tail(group))
           p == state[Head(group)]
       IN <<p[1] + r[1], p[2] + r[2]>>

\* ------------------------------------------------------- Force (base)
\* Force.__init__
Force_init(cls) ==
  [cls |-> cls, name |-> camel_to_snake(cls), state |-> None, space |-> None,
   groups |-> None, goal_vector |-> None, initial_speeds |-> None,
   factor |-> Some(FactorDefault), time_step |-> Some(TimeStepDefault),
   config |-> Some(EmptyDict)]

\* a load_config that reads time_step outside the if
Force_load_config_eager(self, config_dict) ==
  LET config == config_dict.forces[self.name]
      s1 == [self EXCEPT !.config = config,
                         !.time_step = config_dict.time_step]
  IN IF config # None /\ DictTruthy(Val(config))
       THEN [s1 EXCEPT !.factor = Val(config)["factor"]]
       ELSE s1

\* a load_config that reads time_step from the force's own sub-mapping
Force_load_config_own_step(self, config_dict) ==
  LET config == config_dict.forces[self.name]
      s1 == [self EXCEPT !.config = config]
  IN IF config # None /\ DictTruthy(Val(config))
       THEN [s1 EXCEPT !.factor = Val(config)["factor"],
                       !.time_step = Val(config)["time_step"]]
       ELSE s1

\* Force.load_config
Force_load_config(self, config_dict) ==
  LET config == config_dict.forces[self.name]
      s1 == [self EXCEPT !.config = config]
  IN IF config # None /\ DictTruthy(Val(config))
       THEN [s1 EXCEPT !.factor = Val(config)["factor"],
                       !.time_step = config_dict.time_step]
       ELSE s1

\* a set_state that keeps the space it has when none is supplied
Force_set_state_keep_space(self, state, groups, space, initial_speeds) ==
  LET s1 == [self EXCEPT !.state = Some(state),
                         !.space = IF space # None THEN space ELSE self.space,
                         !.groups = groups,
                         !.goal_vector = Some(desired_directions(state))]
  IN IF initial_speeds # None
       THEN [s1 EXCEPT !.initial_speeds = initial_speeds]
       ELSE s1

\* a set_state that assigns initial_speeds unconditionally
Force_set_state_reset(self, state, groups, space, initial_speeds) ==
  [self EXCEPT !.state = Some(state), !.space = space, !.groups = groups,
               !.goal_vector = Some(desired_directions(state)),
               !.initial_speeds = initial_speeds]

\* a set_state that computes the desired directions only once
Force_set_state_cached(self, state, groups, space, initial_speeds) ==
  LET s1 == [self EXCEPT !.state = Some(state), !.space = space,
                         !.groups = groups,
                         !.goal_vector =
                           IF self.goal_vector = None
                             THEN Some(desired_directions(state))
                             ELSE self.goal_vector]
  IN IF initial_speeds # None
       THEN [s1 EXCEPT !.initial_speeds = initial_speeds]
       ELSE s1

\* Force.set_state
Force_set_state(self, state, groups, space, initial_speeds) ==
  LET s1 == [self EXCEPT !.state = Some(state), !.space = space,
                         !.groups = groups,
                         !.goal_vector = Some(desired_directions(state))]
  IN IF initial_speeds # None
       THEN [s1 EXCEPT !.initial_speeds = initial_speeds]
       ELSE s1

\* --------------------------------------------------------- outcomes
\* what a call left behind: nothing to return, an exception, a matrix
NoReturn == [kind |-> "none"]
Raised == [kind |-> "error"]
Returned(rows) == [kind |-> "matrix", rows |-> rows]

\* forces * self.factor for rows of exact entries.  A None factor is a
\* TypeError as soon as there is an entry to multiply.
TimesFactor(forces, factor) ==
  IF factor = None
    THEN IF Len(forces) = 0 THEN Returned(<<>>) ELSE Raised
    ELSE Returned([i \in 1..Len(forces) |->
                     <<forces[i][1] * Val(factor), forces[i][2] * Val(factor)>>])

\* forces * self.factor for rows that are sums of terms kept symbolic; a
\* row without terms, or a factor of 0, is the zero vector
TimesFactorTerms(forces, factor) ==
  IF factor = None
    THEN IF Len(forces) = 0 THEN Returned(<<>>) ELSE Raised
    ELSE Returned([i \in 1..Len(forces) |->
                     [k |-> Val(factor), terms |-> forces[i]]])

\* np.zeros((self.state.shape[0], 2)), as rows of exact entries
Zeros(n) == [i \in 1..n |-> <<0, 0>>]

\* the same, as rows of sums without terms
NoTerms(n) == [i \in 1..n |-> <<>>]

\* ------------------------------------------------------ collaborators
\* PedPedPotential(delta_t, v0, sigma).grad_r_ab(state): per agent, the
\* gradients toward every other agent, kept symbolic
grad_r_ab(delta_t, v0, sigma, state) ==
  [a \in 1..Len(state) |->
     [potential |-> "PedPedPotential", delta_t |-> delta_t, v0 |-> v0,
      sigma |-> sigma, state |-> state, agent |-> a]]

\* PedSpacePotential(space, u0, r).grad_r_aB(state): per agent, the
\* gradients toward every obstacle, kept symbolic
grad_r_aB(space, u0, r, state) ==
  [a \in 1..Len(state) |->
     [potential |-> "PedSpacePotential", space |-> space, u0 |-> u0,
      r |-> r, state |-> state, agent |-> a]]

\* FieldOfView(phi, out_of_view_factor)(e, -f): the weights, kept symbolic
FieldOfView(phi, out_of_view_factor, e) ==
  [phi |-> phi, out_of_view_factor |-> out_of_view_factor, e |-> e]

\* ------------------------------------------------ GoalAttractiveForce
\* F0 = 1/tau * (expand_dims(initial_speeds, -1) * goal_vector - vel),
\* with numpy's broadcasting of L speeds against N agents
GoalAttractiveForce_get_force(self) ==
  IF self.state = None THEN Raised
  ELSE
    LET state == Val(self.state)
        e == Val(self.goal_vector)
        N == Len(state)
    IN IF self.initial_speeds = None
         THEN IF N = 0 THEN Returned(<<>>) ELSE Raised
         ELSE
           LET v0 == Val(self.initial_speeds)
               L == Len(v0)
           IN IF ~(L = N \/ L = 1 \/ N = 1) THEN Raised
              ELSE
                LET R == IF N = 1 THEN L ELSE N
                    F0 == [j \in 1..R |->
                             LET a == IF N = 1 THEN 1 ELSE j
                                 b == IF L = 1 THEN 1 ELSE j
                             IN <<[tau |-> state[a][7], v0 |-> v0[b],
                                   e |-> e[a],
                                   vel |-> <<state[a][3], state[a][4]>>]>>]
                IN TimesFactorTerms(F0, self.factor)

\* -------------------------------------------------- PedRepulsiveForce
PedRepulsiveForce_get_force(self) ==
  IF self.config = None \/ self.state = None THEN Raised
  ELSE
    LET config == Val(self.config)
        state == Val(self.state)
        f_ab == grad_r_ab(self.time_step, config["v0"], config["sigma"], state)
        w == FieldOfView(config["fov_phi"], config["fov_factor"],
                         Val(self.goal_vector))
        F_ab == [a \in 1..Len(state) |-> <<[w |-> w, f_ab |-> f_ab[a]]>>]
    IN TimesFactorTerms(F_ab, self.factor)

\* ------------------------------------------------ SpaceRepulsiveForce
\* a get_force that answers with an empty matrix when no state was set
SpaceRepulsiveForce_get_force_unset(self) ==
  IF self.state = None THEN Returned(<<>>)
  ELSE IF self.space = None
    THEN TimesFactorTerms(NoTerms(Len(Val(self.state))), self.factor)
    ELSE
      IF self.config = None THEN Raised
      ELSE
        LET config == Val(self.config)
            state == Val(self.state)
            F_aB == grad_r_aB(self.space, config["u0"], config["r"], state)
        IN TimesFactorTerms([a \in 1..Len(state) |-> <<F_aB[a]>>],
                            self.factor)

\* np.sum(F_aB, axis=1) over no obstacle at all is a row without terms
SpaceRepulsiveForce_get_force(self) ==
  IF self.space = None
    THEN IF self.state = None THEN Raised
         ELSE TimesFactorTerms(NoTerms(Len(Val(self.state))), self.factor)
    ELSE
      IF self.config = None \/ self.state = None THEN Raised
      ELSE
        LET config == Val(self.config)
            state == Val(self.state)
            F_aB == grad_r_aB(self.space, config["u0"], config["r"], state)
        IN TimesFactorTerms([a \in 1..Len(state) |-> <<F_aB[a]>>],
                            self.factor)

\* ------------------------------------------------ GroupCoherenceForce
\* the place of agent i in group, 0 when it is no member
RECURSIVE IndexIn(_, _)
IndexIn(group, i) ==
  IF group = <<>> THEN 0
  ELSE IF group[Len(group)] = i THEN Len(group)
  ELSE IndexIn(SubSeq(group, 1, Len(group) - 1), i)

\* n * (com - member_pos) for member j of group, n the size of the group
ForceVecN(state, group, j) ==
  LET n == Len(group)
      s == SumPos(state, group)
      p == state[group[j]]
  IN <<s[1] - n * p[1], s[2] - n * p[2]>>

\* norms < threshold, for threshold = (n - 1) / 2 and the norm of
\* force_vec_n / n
NormBelowThreshold(force_vec_n, n) ==
  4 * Dot(force_vec_n, force_vec_n) < n * n * (n - 1) * (n - 1)

\* forces[group, :] += vectors, a zero vector adding no term
AddTerms(forces, group, term(_), zero(_)) ==
  [i \in 1..Len(forces) |->
     LET j == IndexIn(group, i)
     IN IF j = 0 \/ zero(j) THEN forces[i] ELSE Append(forces[i], term(j))]

RECURSIVE GroupCoherenceForce_loop(_, _, _)
GroupCoherenceForce_loop(state, groups, forces) ==
  IF groups = <<>> THEN forces
  ELSE
    LET group == Head(groups)
        n == Len(group)
        vectors(j) ==
          LET force_vec_n == ForceVecN(state, group, j)
          IN IF NormBelowThreshold(force_vec_n, n) THEN <<0, 0>>
             ELSE Direction(force_vec_n)
        term(j) == [unit |-> vectors(j)]
        zero(j) == vectors(j) = <<0, 0>>
    IN GroupCoherenceForce_loop(state, Tail(groups),
                                AddTerms(forces, group, term, zero))

GroupCoherenceForce_get_force(self) ==
  IF self.state = None THEN Raised
  ELSE
    LET state == Val(self.state)
        forces == NoTerms(Len(state))
    IN TimesFactorTerms(
         IF self.groups # None
           THEN GroupCoherenceForce_loop(state, Val(self.groups), forces)
           ELSE forces,
         self.factor)

\* --------------------------------------------- GroupCoherenceForceAlt
RECURSIVE GroupCoherenceForceAlt_loop(_, _, _)
\* force_vec * (tanh(norms - threshold) + 1) / 2: the gate is never 0, so
\* a term is the zero vector exactly when force_vec is
GroupCoherenceForceAlt_loop(state, groups, forces) ==
  IF groups = <<>> THEN forces
  ELSE
    LET group == Head(groups)
        n == Len(group)
        term(j) == [force_vec_n |-> ForceVecN(state, group, j), n |-> n,
                    softened |-> "tanh"]
        zero(j) == ForceVecN(state, group, j) = <<0, 0>>
    IN GroupCoherenceForceAlt_loop(state, Tail(groups),
                                   AddTerms(forces, group, term, zero))

GroupCoherenceForceAlt_get_force(self) ==
  IF self.state = None THEN Raised
  ELSE
    LET state == Val(self.state)
        forces == NoTerms(Len(state))
    IN TimesFactorTerms(
         IF self.groups # None
           THEN GroupCoherenceForceAlt_loop(state, Val(self.groups), forces)
           ELSE forces,
         self.factor)

\* ------------------------------------------------ GroupRepulsiveForce
\* stateutils.vec_diff(member_pos)[a][b] = member_pos[a] - member_pos[b]
vec_diff(state, group, a, b) ==
  <<state[group[a]][1] - state[group[b]][1],
    state[group[a]][2] - state[group[b]][2]>>

\* vectors[norms > threshold] = [0, 0] on the normalized displacement m
\* (threshold in tenths)
ThresholdVectors(m, threshold) ==
  IF threshold < 0 \/ 100 * Dot(m, m) > threshold * threshold
    THEN <<0, 0>>
    ELSE Direction(m)

\* an accumulation that keeps only the displacements the threshold keeps
GroupRepulsiveForce_added_filtered(m, vectors) ==
  IF vectors = <<0, 0>> THEN <<0, 0>> ELSE m

\* forces[group, :] += m: what one pass adds to a member's row
GroupRepulsiveForce_added(m, vectors) == m

RECURSIVE GroupRepulsiveForce_pass(_, _, _, _, _)
\* the rows after the passes a, a+1, ... of "for m in vec_diff(member_pos)"
GroupRepulsiveForce_pass(state, group, a, threshold, forces) ==
  IF a > Len(group) THEN forces
  ELSE
    LET added(b) ==
          LET m == vec_diff(state, group, a, b)
          IN GroupRepulsiveForce_added(m, ThresholdVectors(m, threshold))
        next == [i \in 1..Len(forces) |->
                   LET b == IndexIn(group, i)
                   IN IF b = 0 THEN forces[i]
                      ELSE <<forces[i][1] + added(b)[1],
                             forces[i][2] + added(b)[2]>>]
    IN GroupRepulsiveForce_pass(state, group, a + 1, threshold, next)

RECURSIVE GroupRepulsiveForce_loop(_, _, _, _)
GroupRepulsiveForce_loop(state, groups, threshold, forces) ==
  IF groups = <<>> THEN forces
  ELSE GroupRepulsiveForce_loop(
         state, Tail(groups), threshold,
         GroupRepulsiveForce_pass(state, Head(groups), 1, threshold, forces))

GroupRepulsiveForce_get_force(self) ==
  IF self.config = None \/ self.state = None THEN Raised
  ELSE
    LET threshold == OrDefault(Val(self.config)["threshold"], ThresholdDefault)
        state == Val(self.state)
        forces == Zeros(Len(state))
    IN TimesFactor(
         IF self.groups # None
           THEN GroupRepulsiveForce_loop(state, Val(self.groups), threshold,
                                         forces)
           ELSE forces,
         self.factor)

\* ----------------------------------------------------- GroupGazeForce
\* 10^7 * cos(vision_angle)^2, for the vision angles the model configures
CosSquaredE7(vision_angle) ==
  CASE vision_angle = 90 -> 0
    [] vision_angle = 100 -> 301537

\* a > vision_angle for a the angle between the walking direction d and
\* the direction c to the others' centre (90 degrees when either is the
\* zero vector), for 90 <= vision_angle < 180
AngleExceeds(d, c, vision_angle) ==
  /\ Dot(d, c) < 0
  /\ Dot(d, c) * Dot(d, c) * 10000000
       > CosSquaredE7(vision_angle) * Dot(d, d) * Dot(c, c)

RECURSIVE GroupGazeForce_loop(_, _, _, _, _)
GroupGazeForce_loop(state, goal_vector, groups, vision_angle, forces) ==
  IF groups = <<>> THEN forces
  ELSE
    LET group == Head(groups)
        group_size == Len(group)
        rest == Tail(groups)
    IN IF group_size <= 1
         THEN GroupGazeForce_loop(state, goal_vector, rest, vision_angle,
                                  forces)
         ELSE
           LET member_directions(j) == goal_vector[group[j]]
               \* group_center(others) - member_pos[i], times group_size - 1
               com_directions(j) == Direction(ForceVecN(state, group, j))
               term(j) == [rotation |-> <<member_directions(j),
                                          com_directions(j), vision_angle>>,
                           direction |-> member_directions(j)]
               zero(j) == ~AngleExceeds(member_directions(j),
                                        com_directions(j), vision_angle)
           IN GroupGazeForce_loop(state, goal_vector, rest, vision_angle,
                                  AddTerms(forces, group, term, zero))

GroupGazeForce_get_force(self) ==
  IF self.state = None \/ self.config = None THEN Raised
  ELSE
    LET state == Val(self.state)
        forces == NoTerms(Len(state))
        vision_angle == OrDefault(Val(self.config)["fov_phi"],
                                  VisionAngleDefault)
    IN TimesFactorTerms(
         IF self.groups # None
           THEN GroupGazeForce_loop(state, Val(self.goal_vector),
                                    Val(self.groups), vision_angle, forces)
           ELSE forces,
         self.factor)

\* ----------------------------------------------------------- dispatch
\* self.get_force() of the object's own class
get_force_of(self) ==
  CASE self.cls = "GoalAttractiveForce" -> GoalAttractiveForce_get_force(self)
    [] self.cls = "PedRepulsiveForce" -> PedRepulsiveForce_get_force(self)
    [] self.cls = "SpaceRepulsiveForce" -> SpaceRepulsiveForce_get_force(self)
    [] self.cls = "GroupCoherenceForce" -> GroupCoherenceForce_get_force(self)
    [] self.cls = "GroupCoherenceForceAlt" ->
         GroupCoherenceForceAlt_get_force(self)
    [] self.cls = "GroupRepulsiveForce" -> GroupRepulsiveForce_get_force(self)
    [] self.cls = "GroupGazeForce" -> GroupGazeForce_get_force(self)

\* ------------------------------------------------------------- inputs
\* the configuration mappings handed to load_config: a top-level
\* time_step or none, and an entry under one force's name or none
ConfigDict(time_step, name, entry) ==
  [time_step |-> time_step,
   forces |-> [n \in Names |-> IF n = name THEN entry ELSE None]]

SubDict(factor, time_step, threshold, fov_phi) ==
  [k \in ConfigKeys |->
     CASE k = "factor" -> factor
       [] k = "time_step" -> time_step
       [] k = "threshold" -> threshold
       [] k = "fov_phi" -> fov_phi
       [] OTHER -> None]

\* what load_config may find under the force's own name: nothing, an
\* empty sub-mapping, one with a factor and a time_step of its own, one
\* with parameters but no factor
LifeEntries ==
  {None, Some(EmptyDict),
   Some(SubDict(Some(20), Some(9), None, None)),
   Some(SubDict(None, None, Some(10), None))}

OtherName(name) == CHOOSE n \in Names : n # name

LifeConfigDicts(name) ==
  {ConfigDict(ts, name, e) : ts \in {None, Some(2)}, e \in LifeEntries} \cup
  {ConfigDict(Some(2), OtherName(name),
              Some(SubDict(Some(20), Some(9), None, None)))}

EvalConfigDicts(name) ==
  {ConfigDict(Some(2), name, e) :
     e \in {None,
            Some(SubDict(Some(10), None, None, None)),
            Some(SubDict(Some(-20), None, Some(10), Some(90))),
            Some(SubDict(None, None, Some(15), None))}}

\* one row of a state matrix: position, velocity, goal, relaxation time
Row(x, y, gx, gy) == <<x, y, 0, 0, gx, gy, 5>>

\* the snapshot of n agents at tick t: agent i walks along y = i - 1
Snapshot(n, t) == [i \in 1..n |-> Row(t, i - 1, 1, 0)]

LifeStates == {Snapshot(n, t) : n \in 0..MaxLifeAgents, t \in 0..MaxTick}

EvalRows == {Row(x, y, -1, 0) : x \in 0..MaxCoord, y \in 0..MaxCoord}

EvalStates == UNION {[1..n -> EvalRows] : n \in 0..MaxAgents}

RECURSIVE Ascending(_)
\* the members of a set of agents in ascending order
Ascending(S) ==
  IF S = {} THEN <<>>
  ELSE LET m == CHOOSE x \in S : \A y \in S : x <= y
       IN <<m>> \o Ascending(S \ {m})

Everyone(n) == [i \in 1..n |-> i]

LifeGroups(n) == {None, Some(<<Everyone(n)>>)}

\* None, no group, one group, or two groups without a common member
EvalGroups(n) ==
  {None, Some(<<>>)} \cup
  {Some(<<Ascending(A)>>) : A \in SUBSET (1..n)} \cup
  UNION {{Some(<<Ascending(A), Ascending(B)>>) :
            B \in {C \in SUBSET (1..n) : C \cap A = {}}} :
         A \in SUBSET (1..n)}

Spaces == {None, Some("obstacles")}

\* initial_speeds: omitted, or one speed that numpy broadcasts to every
\* agent
Speeds == {None, Some(<<8>>), Some(<<13>>)}

\* -------------------------------------------------------------- state
VARIABLES
  self,        \* the force object
  ret,         \* what the last call returned or raised
  call,        \* the last call and its arguments
  lastState,   \* the state passed to the most recent set_state
  lastSpace,   \* the space passed to the most recent set_state
  lastSpeeds,  \* the initial_speeds of the most recent call that gave one
  hadSpace     \* some set_state has supplied a space

vars == <<self, ret, call, lastState, lastSpace, lastSpeeds, hadSpace>>

Init ==
  /\ \E cls \in Classes : self = Force_init(cls)
  /\ ret = NoReturn
  /\ call = [op |-> "init"]
  /\ lastState = None
  /\ lastSpace = None
  /\ lastSpeeds = None
  /\ hadSpace = FALSE

load_config ==
  \E config_dict \in LifeConfigDicts(self.name) :
    /\ self' = Force_load_config(self, config_dict)
    /\ ret' = NoReturn
    /\ call' = [op |-> "load_config", config_dict |-> config_dict]
    /\ UNCHANGED <<lastState, lastSpace, lastSpeeds, hadSpace>>

set_state ==
  \E state \in LifeStates :
    \E groups \in LifeGroups(Len(state)), space \in Spaces,
       initial_speeds \in Speeds :
      /\ self' = Force_set_state(self, state, groups, space, initial_speeds)
      /\ ret' = NoReturn
      /\ call' = [op |-> "set_state", initial_speeds |-> initial_speeds]
      /\ lastState' = Some(state)
      /\ lastSpace' = space
      /\ lastSpeeds' = IF initial_speeds # None THEN initial_speeds
                       ELSE lastSpeeds
      /\ hadSpace' = (hadSpace \/ space # None)

get_force ==
  /\ ret' = get_force_of(self)
  /\ call' = [op |-> "get_force"]
  /\ UNCHANGED <<self, lastState, lastSpace, lastSpeeds, hadSpace>>

Next == load_config \/ set_state \/ get_force

Spec == Init /\ [][Next]_vars

\* ------------------------------------------- evaluation of one tick
\* the object after construction, one load_config and one set_state, for
\* every configuration, state matrix and grouping within the bounds
EvalInit ==
  \E cls \in GroupClasses :
    \E config_dict \in EvalConfigDicts(camel_to_snake(cls)),
       state \in EvalStates :
      \E groups \in EvalGroups(Len(state)) :
        LET initial_speeds == Some([i \in 1..Len(state) |-> 13])
        IN /\ self = Force_set_state(
                       Force_load_config(Force_init(cls), config_dict),
                       state, groups, None, initial_speeds)
           /\ ret = NoReturn
           /\ call = [op |-> "set_state", initial_speeds |-> initial_speeds]
           /\ lastState = Some(state)
           /\ lastSpace = None
           /\ lastSpeeds = initial_speeds
           /\ hadSpace = FALSE

EvalNext == get_force

EvalSpec == EvalInit /\ [][EvalNext]_vars

\* ------------------------------------------------------------- claims
\* the entry load_config found under the force's own name
EntryOf(config_dict) == config_dict.forces[self.name]

\* a returned row that is the zero vector
IsZeroRow(row) == row.terms = <<>> \/ row.k = 0

\* C1: the stored initial_speeds is the value of the most recent set_state
\* that supplied one, and None while none has; a set_state that omits
\* initial_speeds leaves it as it was.
C1_InitialSpeedsRetained == self.initial_speeds = lastSpeeds

\* a set_state that omitted initial_speeds has run after one that gave it
C1_Witness ==
  /\ call.op = "set_state"
  /\ call.initial_speeds = None
  /\ self.initial_speeds = Some(<<13>>)

\* C2: after every set_state, and through any get_force and load_config
\* that follow, goal_vector is the desired directions of the state passed
\* to the most recent set_state.
C2_GoalVectorFresh ==
  /\ lastState = None => self.goal_vector = None
  /\ lastState # None =>
       self.goal_vector = Some(desired_directions(Val(lastState)))

\* get_force runs on a second snapshot, whose directions differ from those
\* of the first tick
C2_Witness ==
  /\ call.op = "get_force"
  /\ hadSpace /\ lastSpace = None
  /\ lastState = Some(Snapshot(1, 1))
  /\ self.goal_vector = Some(<<<<0, 0>>>>)
  /\ ret.kind = "matrix"

\* C3 as claimed: whenever configDict holds an entry under the force's
\* name, an empty one included, load_config leaves factor at the entry's
\* "factor" and time_step at the top-level "time_step".
C3_AnyEntryApplied ==
  (call.op = "load_config" /\ EntryOf(call.config_dict) # None) =>
    /\ self.factor = Val(EntryOf(call.config_dict))["factor"]
    /\ self.time_step = call.config_dict.time_step

\* C3 as amended: whenever configDict holds a non-empty entry under the
\* force's name, load_config leaves factor at the entry's "factor" and
\* time_step at the top-level "time_step", never at the entry's own.
C3_NonEmptyEntryApplied ==
  (/\ call.op = "load_config"
   /\ EntryOf(call.config_dict) # None
   /\ DictTruthy(Val(EntryOf(call.config_dict)))) =>
    /\ self.config = EntryOf(call.config_dict)
    /\ self.factor = Val(EntryOf(call.config_dict))["factor"]
    /\ self.time_step = call.config_dict.time_step

\* the entry has a time_step of its own and the global one has won
C3_Witness ==
  /\ call.op = "load_config"
  /\ EntryOf(call.config_dict) # None
  /\ Val(EntryOf(call.config_dict))["time_step"] = Some(9)
  /\ call.config_dict.time_step = Some(2)
  /\ self.time_step = Some(2)
  /\ self.factor = Some(20)

\* C4: a load_config on a force that holds its default factor and
\* time_step, with a configDict without an entry under the force's name,
\* leaves factor at 1.0 and time_step at 0.4.
C4_AbsentEntryKeepsDefaults ==
  [][(/\ call'.op = "load_config"
      /\ EntryOf(call'.config_dict) = None
      /\ self.factor = Some(FactorDefault)
      /\ self.time_step = Some(TimeStepDefault)) =>
       (/\ self'.factor = Some(FactorDefault)
        /\ self'.time_step = Some(TimeStepDefault))]_vars

\* such a load_config has run, with a top-level time_step in configDict
C4_Witness ==
  /\ call.op = "load_config"
  /\ EntryOf(call.config_dict) = None
  /\ call.config_dict.time_step = Some(2)
  /\ self.factor = Some(FactorDefault)
  /\ self.time_step = Some(TimeStepDefault)

\* C5: for each of the seven classes, get_force on an object on which no
\* set_state has run raises and returns no matrix.
C5_UnsetStateRaises ==
  (call.op = "get_force" /\ lastState = None) => ret = Raised

\* get_force has raised on an object without a state
C5_Witness ==
  /\ call.op = "get_force"
  /\ lastState = None
  /\ self.cls = "SpaceRepulsiveForce"
  /\ ret = Raised

\* C6: SpaceRepulsiveForce.get_force after a set_state that supplied no
\* space returns, for every number of agents and every configured factor,
\* one row per agent, each the sum of no obstacle term at all: exactly
\* zero, with no obstacle potential built.
C6_NoSpaceZero ==
  (/\ call.op = "get_force"
   /\ self.cls = "SpaceRepulsiveForce"
   /\ lastState # None
   /\ lastSpace = None
   /\ self.factor # None) =>
    /\ ret.kind = "matrix"
    /\ Len(ret.rows) = Len(Val(lastState))
    /\ \A i \in 1..Len(ret.rows) : ret.rows[i].terms = <<>>

\* the zero matrix was returned for an agent after an earlier set_state
\* had supplied a space
C6_Witness ==
  /\ call.op = "get_force"
  /\ self.cls = "SpaceRepulsiveForce"
  /\ hadSpace /\ lastSpace = None
  /\ ret.kind = "matrix"
  /\ Len(ret.rows) = 1
  /\ ret.rows[1].terms = <<>>

\* norms <= threshold, for threshold = (n - 1) / 2 and the norm of
\* force_vec_n / n
NormAtMostThreshold(force_vec_n, n) ==
  4 * Dot(force_vec_n, force_vec_n) <= n * n * (n - 1) * (n - 1)

\* C7 as claimed: GroupCoherenceForce.get_force gives a member the unit
\* vector toward its group's centroid only when its distance from the
\* centroid strictly exceeds (group_size - 1) / 2; a member at a distance
\* less than or equal to that gets the zero vector.
C7_ZeroUpToThreshold ==
  (/\ call.op = "get_force"
   /\ self.cls = "GroupCoherenceForce"
   /\ ret.kind = "matrix"
   /\ self.groups # None) =>
    \A g \in 1..Len(Val(self.groups)) :
      LET group == Val(self.groups)[g]
      IN \A j \in 1..Len(group) :
           LET force_vec_n == ForceVecN(Val(self.state), group, j)
               row == ret.rows[group[j]]
           IN IF NormAtMostThreshold(force_vec_n, Len(group))
                THEN IsZeroRow(row)
                ELSE row.terms = <<[unit |-> Direction(force_vec_n)]>>

\* the configuration with its threshold replaced
WithThreshold(obj, threshold) ==
  [obj EXCEPT !.config = Some([Val(obj.config) EXCEPT !["threshold"] =
                                                        threshold])]

\* C8: for the same state and groups, GroupRepulsiveForce.get_force
\* returns the same for every configured threshold, unset included.
C8_ThresholdHasNoEffect ==
  (/\ call.op = "get_force"
   /\ self.cls = "GroupRepulsiveForce"
   /\ self.config # None) =>
    \A threshold \in {None, Some(0), Some(5), Some(10), Some(15), Some(30)} :
      GroupRepulsiveForce_get_force(WithThreshold(self, threshold)) = ret

\* a matrix with a non-zero row was returned for a group holding a pair
\* farther apart than the configured threshold
C8_Witness ==
  /\ call.op = "get_force"
  /\ self.cls = "GroupRepulsiveForce"
  /\ self.config # None
  /\ ret.kind = "matrix"
  /\ \E i \in 1..Len(ret.rows) : ret.rows[i] # <<0, 0>>
  /\ self.groups # None
  /\ \E g \in 1..Len(Val(self.groups)) :
       LET group == Val(self.groups)[g]
       IN \E a, b \in 1..Len(group) :
            LET m == vec_diff(Val(self.state), group, a, b)
            IN /\ m # <<0, 0>>
               /\ ThresholdVectors(
                    m, OrDefault(Val(self.config)["threshold"],
                                 ThresholdDefault)) = <<0, 0>>

\* the agents that belong to a group of more than one member
InLargeGroup(groups, i) ==
  \E g \in 1..Len(groups) : Len(groups[g]) > 1 /\ IndexIn(groups[g], i) # 0

\* C9 as claimed: GroupGazeForce.get_force on an object with a state
\* returns one row per agent, the row of every agent outside all groups
\* of more than one member being zero; with groups null it raises nothing
\* and every row is zero.
C9_GazeZeroOutsideGroups ==
  (/\ call.op = "get_force"
   /\ self.cls = "GroupGazeForce"
   /\ lastState # None) =>
    /\ ret.kind = "matrix"
    /\ Len(ret.rows) = Len(Val(lastState))
    /\ \A i \in 1..Len(ret.rows) :
         (self.groups = None \/ ~InLargeGroup(Val(self.groups), i))
           => IsZeroRow(ret.rows[i])

\* what holds of GroupGazeForce.get_force once config is a mapping and
\* factor a number: one row per agent, zero outside the groups of more
\* than one member
GazeZeroOutsideGroupsConfigured ==
  (/\ call.op = "get_force"
   /\ self.cls = "GroupGazeForce"
   /\ lastState # None
   /\ self.config # None
   /\ self.factor # None) =>
    /\ ret.kind = "matrix"
    /\ Len(ret.rows) = Len(Val(lastState))
    /\ \A i \in 1..Len(ret.rows) :
         (self.groups = None \/ ~InLargeGroup(Val(self.groups), i))
           => IsZeroRow(ret.rows[i])

\* C10 as claimed: in every state reachable from construction by
\* load_config calls, config is a mapping and never null.
C10_ConfigNeverNull == self.config # None
====
